---- MODULE Spec2Model ----
(***************************************************************************)
(* A model of the translation pipeline (translate.py) and of the speech    *)
(* synthesis pipeline (tts.py) of deep-read.                               *)
(*                                                                         *)
(* A Python str is a sequence of one-character strings.  The pure          *)
(* functions (chunk_text, clean_text_for_tts) are operators computed pass  *)
(* by pass as the code computes them; the functions that talk to a         *)
(* provider (translate_chunk, text_to_speech_with_voice) are state         *)
(* machines whose provider outcomes are chosen nondeterministically.       *)
(***************************************************************************)
EXTENDS Integers, Sequences, FiniteSets, TLC

(***************************************************************************)
(* Bounds of the model.                                                    *)
(***************************************************************************)
\* longest input text of chunk_text
MaxChunkTextLen == 5
\* largest max_chunk_size handed to chunk_text
MaxChunkSize == 4
\* longest input text of clean_text_for_tts
MaxCleanLen == 5
\* largest retry_count handed to translate_chunk
MaxRetry == 3
\* longest input text of text_to_speech_with_voice
MaxTtsLen == 3

(***************************************************************************)
(* Characters and the str methods the code uses.                           *)
(***************************************************************************)
SP == " "
NL == "\n"
TAB == "\t"

\* str.strip(), str.split() and the regex class \s
Whitespace == {SP, NL, TAB}
\* the regex class [.,!?;:] of clean_text_for_tts
Punct == {".", ",", "!", "?", ";", ":"}
\* the regex class [A-Za-z]
Letters == {"a", "b", "c", "d", "e", "f", "g", "h", "i", "j", "k", "l", "m",
            "n", "o", "p", "q", "r", "s", "t", "u", "v", "w", "x", "y", "z",
            "A", "B", "C", "D", "E", "F", "G", "H", "I", "J", "K", "L", "M",
            "N", "O", "P", "Q", "R", "S", "T", "U", "V", "W", "X", "Y", "Z"}

RECURSIVE lstrip(_)
lstrip(s) ==
    IF s = <<>> THEN s
    ELSE IF Head(s) \in Whitespace THEN lstrip(Tail(s)) ELSE s

RECURSIVE rstrip(_)
rstrip(s) ==
    IF s = <<>> THEN s
    ELSE IF s[Len(s)] \in Whitespace THEN rstrip(SubSeq(s, 1, Len(s) - 1)) ELSE s

\* str.strip()
strip(s) == rstrip(lstrip(s))

\* str.replace(old, new) for a one-character old
RECURSIVE replace_char(_, _, _)
replace_char(s, old, new) ==
    IF s = <<>> THEN <<>>
    ELSE (IF Head(s) = old THEN new ELSE <<Head(s)>>)
         \o replace_char(Tail(s), old, new)

\* str.replace(old, new) for a two-character old: leftmost matches, not overlapping
RECURSIVE replace_pair(_, _, _, _)
replace_pair(s, o1, o2, new) ==
    IF Len(s) < 2 THEN s
    ELSE IF s[1] = o1 /\ s[2] = o2
         THEN new \o replace_pair(SubSeq(s, 3, Len(s)), o1, o2, new)
         ELSE <<s[1]>> \o replace_pair(Tail(s), o1, o2, new)

\* str.split(sep): the pieces between the separators, the empty ones included
RECURSIVE split_sep_acc(_, _, _)
split_sep_acc(s, sep, cur) ==
    IF s = <<>> THEN <<cur>>
    ELSE IF Head(s) = sep THEN <<cur>> \o split_sep_acc(Tail(s), sep, <<>>)
         ELSE split_sep_acc(Tail(s), sep, Append(cur, Head(s)))

split_sep(s, sep) == split_sep_acc(s, sep, <<>>)

\* str.split(): the maximal runs of non-whitespace characters
RECURSIVE split_ws_acc(_, _)
split_ws_acc(s, cur) ==
    LET flush == IF cur = <<>> THEN <<>> ELSE <<cur>>
    IN  IF s = <<>> THEN flush
        ELSE IF Head(s) \in Whitespace THEN flush \o split_ws_acc(Tail(s), <<>>)
             ELSE split_ws_acc(Tail(s), Append(cur, Head(s)))

split_ws(s) == split_ws_acc(s, <<>>)

\* sep.join(parts)
RECURSIVE join(_, _)
join(sep, parts) ==
    IF parts = <<>> THEN <<>>
    ELSE IF Len(parts) = 1 THEN parts[1]
         ELSE parts[1] \o sep \o join(sep, Tail(parts))

\* all the sequences over S of length at most n
RECURSIVE SeqsUpTo(_, _)
SeqsUpTo(S, n) ==
    IF n = 0 THEN {<<>>}
    ELSE LET shorter == SeqsUpTo(S, n - 1)
         IN  shorter \cup {Append(s, c) : s \in {t \in shorter : Len(t) = n - 1}, c \in S}

(***************************************************************************)
(* translate.py: chunk_text                                                *)
(***************************************************************************)

\* lines 64-70: one turn of the word loop; st = [chunks, current_chunk]
AddWord(st, word, max_chunk_size) ==
    IF Len(st.current_chunk) + Len(word) + 1 > max_chunk_size
    THEN [chunks        |-> IF st.current_chunk # <<>>
                            THEN Append(st.chunks, strip(st.current_chunk))
                            ELSE st.chunks,
          current_chunk |-> word \o <<SP>>]
    ELSE [chunks        |-> st.chunks,
          current_chunk |-> st.current_chunk \o word \o <<SP>>]

RECURSIVE WordLoop(_, _, _)
WordLoop(st, words, max_chunk_size) ==
    IF words = <<>> THEN st
    ELSE WordLoop(AddWord(st, Head(words), max_chunk_size), Tail(words), max_chunk_size)

\* the flush branch dropping the buffer instead of saving it
AddSentence_DropBuffer(st, raw, max_chunk_size) ==
    LET sentence == strip(raw)
    IN  IF sentence = <<>> THEN st
        ELSE IF Len(st.current_chunk) + Len(sentence) + 2 > max_chunk_size
             THEN IF st.current_chunk # <<>>
                  THEN [chunks        |-> st.chunks,
                        current_chunk |-> sentence \o <<".", SP>>]
                  ELSE WordLoop(st, split_ws(sentence), max_chunk_size)
             ELSE [chunks        |-> st.chunks,
                   current_chunk |-> st.current_chunk \o sentence \o <<".", SP>>]

\* lines 51-72: one turn of the sentence loop
AddSentence(st, raw, max_chunk_size) ==
    LET sentence == strip(raw)
    IN  IF sentence = <<>> THEN st
        ELSE IF Len(st.current_chunk) + Len(sentence) + 2 > max_chunk_size
             THEN IF st.current_chunk # <<>>
                  THEN [chunks        |-> Append(st.chunks, strip(st.current_chunk)),
                        current_chunk |-> sentence \o <<".", SP>>]
                  ELSE WordLoop(st, split_ws(sentence), max_chunk_size)
             ELSE [chunks        |-> st.chunks,
                   current_chunk |-> st.current_chunk \o sentence \o <<".", SP>>]

RECURSIVE SentenceLoop(_, _, _)
SentenceLoop(st, sentences, max_chunk_size) ==
    IF sentences = <<>> THEN st
    ELSE SentenceLoop(AddSentence(st, Head(sentences), max_chunk_size),
                      Tail(sentences), max_chunk_size)

\* line 48: '!' and '?' become '.', a doubled line break becomes '. '
NormalizeTerminators(text) ==
    replace_pair(replace_char(replace_char(text, "!", <<".">>), "?", <<".">>),
                 NL, NL, <<".", SP>>)

\* the test of line 40 with < in place of <=
chunk_text_StrictLess(text, max_chunk_size) ==
    IF Len(text) < max_chunk_size THEN <<text>>
    ELSE LET sentences == split_sep(NormalizeTerminators(text), ".")
             st == SentenceLoop([chunks |-> <<>>, current_chunk |-> <<>>],
                                sentences, max_chunk_size)
         IN  IF strip(st.current_chunk) # <<>>
             THEN Append(st.chunks, strip(st.current_chunk))
             ELSE st.chunks

\* lines 28-78
chunk_text(text, max_chunk_size) ==
    IF Len(text) <= max_chunk_size THEN <<text>>
    ELSE LET sentences == split_sep(NormalizeTerminators(text), ".")
             st == SentenceLoop([chunks |-> <<>>, current_chunk |-> <<>>],
                                sentences, max_chunk_size)
         IN  IF strip(st.current_chunk) # <<>>
             THEN Append(st.chunks, strip(st.current_chunk))
             ELSE st.chunks

(***************************************************************************)
(* tts.py: clean_text_for_tts, one operator per re.sub                     *)
(***************************************************************************)

\* how many characters of S the text starts with
RECURSIVE RunLen(_, _)
RunLen(s, S) ==
    IF s = <<>> THEN 0
    ELSE IF Head(s) \in S THEN 1 + RunLen(Tail(s), S) ELSE 0

Drop(s, n) == SubSeq(s, n + 1, Len(s))

\* lines 72 and 91: re.sub(r' +', ' ', text)
RECURSIVE collapse_spaces(_)
collapse_spaces(s) ==
    IF s = <<>> THEN <<>>
    ELSE IF Head(s) = SP
         THEN <<SP>> \o collapse_spaces(Drop(s, RunLen(s, {SP})))
         ELSE <<Head(s)>> \o collapse_spaces(Tail(s))

\* a single line break deleted instead of replaced by a space
join_single_breaks_Delete(s) ==
    SelectSeq([i \in 1..Len(s) |->
                  IF /\ s[i] = NL
                     /\ (i = 1 \/ s[i - 1] # NL)
                     /\ (i = Len(s) \/ s[i + 1] # NL)
                  THEN "" ELSE s[i]],
              LAMBDA c : c # "")

\* line 76: re.sub(r'(?<!\n)\n(?!\n)', ' ', text)
join_single_breaks(s) ==
    [i \in 1..Len(s) |->
        IF /\ s[i] = NL
           /\ (i = 1 \/ s[i - 1] # NL)
           /\ (i = Len(s) \/ s[i + 1] # NL)
        THEN SP ELSE s[i]]

\* line 79: re.sub(r'\n{2,}', '. ', text)
RECURSIVE paragraph_breaks(_)
paragraph_breaks(s) ==
    IF s = <<>> THEN <<>>
    ELSE LET n == RunLen(s, {NL})
         IN  IF n >= 2 THEN <<".", SP>> \o paragraph_breaks(Drop(s, n))
             ELSE <<Head(s)>> \o paragraph_breaks(Tail(s))

\* line 82: re.sub(r'([a-z])\n([a-z])', r'\1 \2', text, flags=re.IGNORECASE)
RECURSIVE join_letter_breaks(_)
join_letter_breaks(s) ==
    IF Len(s) < 3 THEN s
    ELSE IF s[1] \in Letters /\ s[2] = NL /\ s[3] \in Letters
         THEN <<s[1], SP, s[3]>> \o join_letter_breaks(Drop(s, 3))
         ELSE <<s[1]>> \o join_letter_breaks(Tail(s))

\* line 85: re.sub(r'-\s*\n\s*', '', text): a hyphen and the whitespace run after
\* it go when the run holds a line break
RECURSIVE dehyphenate(_)
dehyphenate(s) ==
    IF s = <<>> THEN <<>>
    ELSE LET rest == Tail(s)
             n == RunLen(rest, Whitespace)
         IN  IF Head(s) = "-" /\ \E i \in 1..n : rest[i] = NL
             THEN dehyphenate(Drop(rest, n))
             ELSE <<Head(s)>> \o dehyphenate(rest)

\* line 88: text.replace('\n', ' ')
remove_breaks(s) == replace_char(s, NL, <<SP>>)

\* line 94: re.sub(r'\s+([.,!?;:])', r'\1', text)
RECURSIVE strip_before_punct(_)
strip_before_punct(s) ==
    IF s = <<>> THEN <<>>
    ELSE LET n == RunLen(s, Whitespace)
         IN  IF n >= 1 /\ Len(s) > n /\ s[n + 1] \in Punct
             THEN <<s[n + 1]>> \o strip_before_punct(Drop(s, n + 1))
             ELSE <<Head(s)>> \o strip_before_punct(Tail(s))

\* line 95: re.sub(r'([.,!?;:])\s*([.,!?;:])', r'\1\2', text)
RECURSIVE collapse_punct(_)
collapse_punct(s) ==
    IF s = <<>> THEN <<>>
    ELSE LET rest == Tail(s)
             n == RunLen(rest, Whitespace)
         IN  IF Head(s) \in Punct /\ Len(rest) > n /\ rest[n + 1] \in Punct
             THEN <<Head(s), rest[n + 1]>> \o collapse_punct(Drop(rest, n + 1))
             ELSE <<Head(s)>> \o collapse_punct(rest)

\* line 98: re.sub(r'([.,!?;:])([A-Za-z])', r'\1 \2', text)
RECURSIVE space_after_punct(_)
space_after_punct(s) ==
    IF Len(s) < 2 THEN s
    ELSE IF s[1] \in Punct /\ s[2] \in Letters
         THEN <<s[1], SP, s[2]>> \o space_after_punct(Drop(s, 2))
         ELSE <<s[1]>> \o space_after_punct(Tail(s))

\* line 104: re.sub(r'\.{2,}', '.', text)
RECURSIVE collapse_periods(_)
collapse_periods(s) ==
    IF s = <<>> THEN <<>>
    ELSE LET n == RunLen(s, {"."})
         IN  IF n >= 2 THEN <<".">> \o collapse_periods(Drop(s, n))
             ELSE <<Head(s)>> \o collapse_periods(Tail(s))

\* lines 107-108: a period is appended unless the text ends in '.', '!' or '?'
end_sentence(s) ==
    IF s # <<>> /\ s[Len(s)] \notin {".", "!", "?"} THEN Append(s, ".") ELSE s

\* lines 71-88: the passes up to the last line break being gone
break_passes(s) ==
    remove_breaks(dehyphenate(join_letter_breaks(paragraph_breaks(
        join_single_breaks(collapse_spaces(s))))))

\* the passes without the second collapse of spaces (line 91)
punct_passes_NoCollapse(s) ==
    end_sentence(collapse_periods(strip(space_after_punct(collapse_punct(
        strip_before_punct(s))))))

\* lines 90-108: the spacing and punctuation passes
punct_passes(s) ==
    end_sentence(collapse_periods(strip(space_after_punct(collapse_punct(
        strip_before_punct(collapse_spaces(s)))))))

\* lines 57-110
clean_text_for_tts(text) ==
    IF text = <<>> THEN <<>> ELSE punct_passes(break_passes(text))

(***************************************************************************)
(* The static tables.                                                      *)
(***************************************************************************)

\* dict.get(key, default)
DictGet(d, key, default) == IF key \in DOMAIN d THEN d[key] ELSE default

\* translate.py lines 7-25
LANGUAGE_MAP ==
    ( "en" :> "en" @@ "si" :> "si" @@ "ta" :> "ta" @@ "hi" :> "hi" @@
      "es" :> "es" @@ "fr" :> "fr" @@ "de" :> "de" @@ "zh-CN" :> "zh-CN" @@
      "zh" :> "zh-CN" @@ "ja" :> "ja" @@ "ko" :> "ko" @@ "ar" :> "ar" @@
      "ru" :> "ru" @@ "pt" :> "pt" @@ "it" :> "it" @@ "nl" :> "nl" @@
      "tr" :> "tr" )

\* tts.py lines 11-48
EDGE_VOICES ==
    [ male |->
        ( "en" :> "en-US-GuyNeural" @@ "si" :> "si-LK-SameeraNeural" @@
          "ta" :> "ta-IN-ValluvarNeural" @@ "hi" :> "hi-IN-MadhurNeural" @@
          "es" :> "es-ES-AlvaroNeural" @@ "fr" :> "fr-FR-HenriNeural" @@
          "de" :> "de-DE-ConradNeural" @@ "zh-CN" :> "zh-CN-YunxiNeural" @@
          "ja" :> "ja-JP-KeitaNeural" @@ "ko" :> "ko-KR-InJoonNeural" @@
          "ar" :> "ar-SA-HamedNeural" @@ "ru" :> "ru-RU-DmitryNeural" @@
          "pt" :> "pt-BR-AntonioNeural" @@ "it" :> "it-IT-DiegoNeural" @@
          "nl" :> "nl-NL-MaartenNeural" @@ "tr" :> "tr-TR-AhmetNeural" ),
      female |->
        ( "en" :> "en-US-JennyNeural" @@ "si" :> "si-LK-ThiliniNeural" @@
          "ta" :> "ta-IN-PallaviNeural" @@ "hi" :> "hi-IN-SwaraNeural" @@
          "es" :> "es-ES-ElviraNeural" @@ "fr" :> "fr-FR-DeniseNeural" @@
          "de" :> "de-DE-KatjaNeural" @@ "zh-CN" :> "zh-CN-XiaoxiaoNeural" @@
          "ja" :> "ja-JP-NanamiNeural" @@ "ko" :> "ko-KR-SunHiNeural" @@
          "ar" :> "ar-SA-ZariyahNeural" @@ "ru" :> "ru-RU-SvetlanaNeural" @@
          "pt" :> "pt-BR-FranciscaNeural" @@ "it" :> "it-IT-ElsaNeural" @@
          "nl" :> "nl-NL-ColetteNeural" @@ "tr" :> "tr-TR-EmelNeural" ) ]

\* tts.py lines 51-54
GTTS_LANGUAGES ==
    {"en", "si", "ta", "hi", "es", "fr", "de", "zh-CN",
     "ja", "ko", "ar", "ru", "pt", "it", "nl", "tr"}

\* the language codes a caller passes: the known ones and some unknown ones
LangInputs == DOMAIN LANGUAGE_MAP \cup {"xx", "invalid"}

(***************************************************************************)
(* The state.                                                              *)
(***************************************************************************)
VARIABLES
    \* chunk_text: its arguments, its position and its return value
    ck_text, ck_max, ck_pc, ck_chunks,
    \* clean_text_for_tts: its argument, its position, its return value, and the
    \* return value of a second call on the first one's return value
    nz_text, nz_pc, nz_out, nz_out2,
    \* translate_chunk: its arguments (chunk, target_lang, retry_count), its
    \* position, the normalized target_lang, the loop variable attempt, the
    \* provider calls made so far (target and outcome of each), the sleeps made
    \* so far (the seconds of each) and its return value
    tc_chunk, tc_lang, tc_retry, tc_pc, tc_target, tc_attempt, tc_calls,
    tc_sleeps, tc_result,
    \* text_to_speech_with_voice: its arguments (text, voice_type, speed in
    \* thousandths, lang), its position, the local text, voice_name and
    \* rate_percent, how often the text was normalized, the calls of the primary
    \* and of the secondary provider (arguments and outcome of each) and its
    \* return value
    tts_text, tts_voice_type, tts_speed, tts_lang, tts_pc, tts_local,
    tts_voice_name, tts_rate_percent, tts_cleaned, tts_primary, tts_secondary,
    tts_result,
    \* translate_text: its arguments (text, or None in its place, and
    \* target_lang), its position, the stripped text, the strategy taken, the
    \* locals chunks, i, translated_chunks, successful_chunks and failed_chunks,
    \* what it has done so far in order (the call of chunk_text, each finished
    \* call of translate_chunk with its provider calls and waits, each sleep of
    \* its own) and its return value
    tt_text, tt_is_none, tt_lang, tt_pc, tt_local, tt_mode, tt_chunks, tt_i,
    tt_translated, tt_successful, tt_failed, tt_log, tt_result,
    \* generate_edge_tts_async: its position, the state of the provider's
    \* stream, the events that have arrived, the buffer audio_data (content and
    \* position) and its return value
    sm_pc, sm_stream, sm_seen, sm_audio_data, sm_result,
    \* run_async_in_sync: the event loop of the calling thread when it is
    \* called, whether the interpreter is 3.7 or later, what the coroutine does
    \* when it is run (its outcome and the number of its awaits), its position,
    \* the state of the coroutine object and the awaits it has left, whether
    \* nest_asyncio has patched the loop, and what the caller gets (a return
    \* value or an exception)
    br_loop, br_py37, br_fate, br_awaits, br_pc, br_coro, br_left, br_patched,
    br_result, br_error

chunkVars == <<ck_text, ck_max, ck_pc, ck_chunks>>
cleanVars == <<nz_text, nz_pc, nz_out, nz_out2>>
transVars == <<tc_chunk, tc_lang, tc_retry, tc_pc, tc_target, tc_attempt,
               tc_calls, tc_sleeps, tc_result>>
ttsVars == <<tts_text, tts_voice_type, tts_speed, tts_lang, tts_pc, tts_local,
             tts_voice_name, tts_rate_percent, tts_cleaned, tts_primary,
             tts_secondary, tts_result>>
textVars == <<tt_text, tt_is_none, tt_lang, tt_pc, tt_local, tt_mode, tt_chunks,
              tt_i, tt_translated, tt_successful, tt_failed, tt_log, tt_result>>
streamVars == <<sm_pc, sm_stream, sm_seen, sm_audio_data, sm_result>>
bridgeVars == <<br_loop, br_py37, br_fate, br_awaits, br_pc, br_coro, br_left,
                br_patched, br_result, br_error>>
vars == <<chunkVars, cleanVars, transVars, ttsVars, textVars, streamVars,
          bridgeVars>>

ChunkIdle ==
    /\ ck_text = <<>>
    /\ ck_max = 0
    /\ ck_pc = "idle"
    /\ ck_chunks = <<>>

CleanIdle ==
    /\ nz_text = <<>>
    /\ nz_pc = "idle"
    /\ nz_out = <<>>
    /\ nz_out2 = <<>>

TransIdle ==
    /\ tc_chunk = <<>>
    /\ tc_lang = "en"
    /\ tc_retry = 0
    /\ tc_pc = "idle"
    /\ tc_target = "en"
    /\ tc_attempt = 0
    /\ tc_calls = <<>>
    /\ tc_sleeps = <<>>
    /\ tc_result = <<>>

NoAudio == [provider |-> "none", text |-> <<>>]

TtsIdle ==
    /\ tts_text = <<>>
    /\ tts_voice_type = "male"
    /\ tts_speed = 1000
    /\ tts_lang = "en"
    /\ tts_pc = "idle"
    /\ tts_local = <<>>
    /\ tts_voice_name = ""
    /\ tts_rate_percent = 0
    /\ tts_cleaned = 0
    /\ tts_primary = <<>>
    /\ tts_secondary = <<>>
    /\ tts_result = NoAudio

TextIdle ==
    /\ tt_text = <<>>
    /\ tt_is_none = FALSE
    /\ tt_lang = "en"
    /\ tt_pc = "idle"
    /\ tt_local = <<>>
    /\ tt_mode = "none"
    /\ tt_chunks = <<>>
    /\ tt_i = 0
    /\ tt_translated = <<>>
    /\ tt_successful = 0
    /\ tt_failed = 0
    /\ tt_log = <<>>
    /\ tt_result = <<>>

\* no buffer: what the caller of a coroutine that raised has
NoBuffer == [data |-> <<>>, pos |-> -1]

StreamIdle ==
    /\ sm_pc = "idle"
    /\ sm_stream = "none"
    /\ sm_seen = <<>>
    /\ sm_audio_data = NoBuffer
    /\ sm_result = NoBuffer

\* no exception
NoError == [type |-> "none", origin |-> "none"]

BridgeIdle ==
    /\ br_loop = "none"
    /\ br_py37 = TRUE
    /\ br_fate = "result"
    /\ br_awaits = 0
    /\ br_pc = "idle"
    /\ br_coro = "created"
    /\ br_left = 0
    /\ br_patched = FALSE
    /\ br_result = "none"
    /\ br_error = NoError

(***************************************************************************)
(* A call of chunk_text.                                                   *)
(***************************************************************************)
ChunkAlphabet == {"a", "b", SP, ".", "?", NL}
ChunkTexts == SeqsUpTo(ChunkAlphabet, MaxChunkTextLen)

InitChunk ==
    /\ ck_text \in ChunkTexts
    /\ ck_max \in 1..MaxChunkSize
    /\ ck_pc = "call"
    /\ ck_chunks = <<>>
    /\ CleanIdle /\ TransIdle /\ TtsIdle /\ TextIdle
    /\ StreamIdle /\ BridgeIdle

ChunkText ==
    /\ ck_pc = "call"
    /\ ck_chunks' = chunk_text(ck_text, ck_max)
    /\ ck_pc' = "returned"
    /\ UNCHANGED <<ck_text, ck_max, cleanVars, transVars, ttsVars, textVars,
            streamVars, bridgeVars>>

NextChunk == ChunkText

SpecChunk == InitChunk /\ [][NextChunk]_vars

(***************************************************************************)
(* A call of clean_text_for_tts, and a second call on what it returned.    *)
(***************************************************************************)
CleanAlphabet == {"a", SP, NL, TAB, ".", ",", "-"}

\* tts.py lines 289-291 (with the name of the specification's example) and the
\* hyphenated word of the comment of line 84
ExampleWrapped ==
    <<"h", "i", SP, "m", "y", NL, "n", "a", "m", "e", NL, "i", "s", SP, "s", "a", "m">>
ExampleHyphenated == <<"e", "x", "a", "m", "-", NL, "p", "l", "e">>

CleanTexts ==
    SeqsUpTo(CleanAlphabet, MaxCleanLen) \cup {ExampleWrapped, ExampleHyphenated}

InitClean ==
    /\ nz_text \in CleanTexts
    /\ nz_pc = "call"
    /\ nz_out = <<>>
    /\ nz_out2 = <<>>
    /\ ChunkIdle /\ TransIdle /\ TtsIdle /\ TextIdle
    /\ StreamIdle /\ BridgeIdle

Normalize ==
    /\ nz_pc = "call"
    /\ nz_out' = clean_text_for_tts(nz_text)
    /\ nz_pc' = "once"
    /\ UNCHANGED <<nz_text, nz_out2, chunkVars, transVars, ttsVars, textVars,
            streamVars, bridgeVars>>

Renormalize ==
    /\ nz_pc = "once"
    /\ nz_out2' = clean_text_for_tts(nz_out)
    /\ nz_pc' = "twice"
    /\ UNCHANGED <<nz_text, nz_out, chunkVars, transVars, ttsVars, textVars,
            streamVars, bridgeVars>>

NextClean == Normalize \/ Renormalize

SpecClean == InitClean /\ [][NextClean]_vars

(***************************************************************************)
(* translate.py: translate_chunk.  One step per turn of the retry loop;    *)
(* what the provider does at a call is chosen freely.                      *)
(***************************************************************************)

\* what translator.translate(chunk) does: it raises, or it returns None, or it
\* returns a str (the empty one, the chunk itself, or a translation of it)
Translation(chunk) == <<"T">> \o chunk

ProviderOutcomes(chunk) ==
    {[kind |-> "raise", text |-> <<>>], [kind |-> "none", text |-> <<>>],
     [kind |-> "str", text |-> <<>>], [kind |-> "str", text |-> chunk],
     [kind |-> "str", text |-> Translation(chunk)]}

\* line 102: translated and len(translated) > 0
IsValidTranslation(o) == o.kind = "str" /\ Len(o.text) > 0

\* a call that gave no translation: an exception, None or the empty str
IsFailure(o) == ~IsValidTranslation(o)

TransChunks == {<<"a">>, <<"a", SP, "b", ".">>}

InitTrans ==
    /\ tc_chunk \in TransChunks
    /\ tc_lang \in LangInputs
    /\ tc_retry \in 0..MaxRetry
    /\ tc_pc = "call"
    /\ tc_target = tc_lang
    /\ tc_attempt = 0
    /\ tc_calls = <<>>
    /\ tc_sleeps = <<>>
    /\ tc_result = <<>>
    /\ ChunkIdle /\ CleanIdle /\ TtsIdle /\ TextIdle
    /\ StreamIdle /\ BridgeIdle

\* validate_language_code, lines 211-226: the table's value, 'en' for an unknown code
validate_language_code(lang_code) ==
    IF lang_code \in DOMAIN LANGUAGE_MAP THEN LANGUAGE_MAP[lang_code] ELSE "en"

\* line 94: target_lang = LANGUAGE_MAP.get(target_lang, target_lang)
NormalizeTarget(target_lang) == DictGet(LANGUAGE_MAP, target_lang, target_lang)

\* line 94, and line 96 entering the loop
TcEnter ==
    /\ tc_pc = "call"
    /\ tc_target' = NormalizeTarget(tc_lang)
    /\ tc_attempt' = 0
    /\ tc_pc' = "loop"
    /\ UNCHANGED <<tc_chunk, tc_lang, tc_retry, tc_calls, tc_sleeps, tc_result,
                   chunkVars, cleanVars, ttsVars, textVars,
                   streamVars, bridgeVars>>

\* a failed last attempt raising to the caller instead of returning the chunk
TcAttempt_Reraise ==
    /\ tc_pc = "loop"
    /\ tc_attempt < tc_retry
    /\ \E o \in ProviderOutcomes(tc_chunk) :
        /\ tc_calls' = Append(tc_calls, [target |-> tc_target, outcome |-> o])
        /\ IF IsValidTranslation(o)
           THEN /\ tc_result' = o.text
                /\ tc_pc' = "returned"
                /\ UNCHANGED <<tc_attempt, tc_sleeps>>
           ELSE IF tc_attempt < tc_retry - 1
                THEN /\ tc_sleeps' = Append(tc_sleeps, tc_attempt + 1)
                     /\ tc_attempt' = tc_attempt + 1
                     /\ UNCHANGED <<tc_pc, tc_result>>
                ELSE /\ tc_pc' = "raised"
                     /\ UNCHANGED <<tc_attempt, tc_sleeps, tc_result>>
    /\ UNCHANGED <<tc_chunk, tc_lang, tc_retry, tc_target,
                   chunkVars, cleanVars, ttsVars, textVars,
                   streamVars, bridgeVars>>

\* a failed attempt returning the chunk at once, without trying again
TcAttempt_NoRetry ==
    /\ tc_pc = "loop"
    /\ tc_attempt < tc_retry
    /\ \E o \in ProviderOutcomes(tc_chunk) :
        /\ tc_calls' = Append(tc_calls, [target |-> tc_target, outcome |-> o])
        /\ tc_result' = IF IsValidTranslation(o) THEN o.text ELSE tc_chunk
        /\ tc_pc' = "returned"
    /\ UNCHANGED <<tc_chunk, tc_lang, tc_retry, tc_target, tc_attempt, tc_sleeps,
                   chunkVars, cleanVars, ttsVars, textVars,
                   streamVars, bridgeVars>>

\* a loop that keeps the provider's result and goes on to the next attempt
\* instead of returning it
TcAttempt_RetryAfterSuccess ==
    /\ tc_pc = "loop"
    /\ tc_attempt < tc_retry
    /\ \E o \in ProviderOutcomes(tc_chunk) :
        /\ tc_calls' = Append(tc_calls, [target |-> tc_target, outcome |-> o])
        /\ tc_result' = IF IsValidTranslation(o) THEN o.text
                        ELSE IF tc_result = <<>> THEN tc_chunk ELSE tc_result
        /\ IF tc_attempt < tc_retry - 1
           THEN /\ tc_sleeps' = IF IsValidTranslation(o) THEN tc_sleeps
                                ELSE Append(tc_sleeps, tc_attempt + 1)
                /\ tc_attempt' = tc_attempt + 1
                /\ UNCHANGED tc_pc
           ELSE /\ tc_pc' = "returned"
                /\ UNCHANGED <<tc_attempt, tc_sleeps>>
    /\ UNCHANGED <<tc_chunk, tc_lang, tc_retry, tc_target,
                   chunkVars, cleanVars, ttsVars, textVars,
                   streamVars, bridgeVars>>

\* a wait of one second after every failed attempt but the last
TcAttempt_ConstantWait ==
    /\ tc_pc = "loop"
    /\ tc_attempt < tc_retry
    /\ \E o \in ProviderOutcomes(tc_chunk) :
        /\ tc_calls' = Append(tc_calls, [target |-> tc_target, outcome |-> o])
        /\ IF IsValidTranslation(o)
           THEN /\ tc_result' = o.text
                /\ tc_pc' = "returned"
                /\ UNCHANGED <<tc_attempt, tc_sleeps>>
           ELSE IF tc_attempt < tc_retry - 1
                THEN /\ tc_sleeps' = Append(tc_sleeps, 1)
                     /\ tc_attempt' = tc_attempt + 1
                     /\ UNCHANGED <<tc_pc, tc_result>>
                ELSE /\ tc_result' = tc_chunk
                     /\ tc_pc' = "returned"
                     /\ UNCHANGED <<tc_attempt, tc_sleeps>>
    /\ UNCHANGED <<tc_chunk, tc_lang, tc_retry, tc_target,
                   chunkVars, cleanVars, ttsVars, textVars,
                   streamVars, bridgeVars>>

\* lines 96-118: one turn of the loop.  The provider is called (lines 98-99); a
\* non-empty str is returned (102-103); anything else is a failure (105, 107),
\* followed by a sleep of attempt + 1 seconds and the next turn (110-114) or, at
\* the last attempt, by the return of the chunk (115-118)
TcAttempt ==
    /\ tc_pc = "loop"
    /\ tc_attempt < tc_retry
    /\ \E o \in ProviderOutcomes(tc_chunk) :
        /\ tc_calls' = Append(tc_calls, [target |-> tc_target, outcome |-> o])
        /\ IF IsValidTranslation(o)
           THEN /\ tc_result' = o.text
                /\ tc_pc' = "returned"
                /\ UNCHANGED <<tc_attempt, tc_sleeps>>
           ELSE IF tc_attempt < tc_retry - 1
                THEN /\ tc_sleeps' = Append(tc_sleeps, tc_attempt + 1)
                     /\ tc_attempt' = tc_attempt + 1
                     /\ UNCHANGED <<tc_pc, tc_result>>
                ELSE /\ tc_result' = tc_chunk
                     /\ tc_pc' = "returned"
                     /\ UNCHANGED <<tc_attempt, tc_sleeps>>
    /\ UNCHANGED <<tc_chunk, tc_lang, tc_retry, tc_target,
                   chunkVars, cleanVars, ttsVars, textVars,
                   streamVars, bridgeVars>>

\* line 120: the loop ended without a return (retry_count is 0)
TcFallThrough ==
    /\ tc_pc = "loop"
    /\ tc_attempt >= tc_retry
    /\ tc_result' = tc_chunk
    /\ tc_pc' = "returned"
    /\ UNCHANGED <<tc_chunk, tc_lang, tc_retry, tc_target, tc_attempt, tc_calls,
                   tc_sleeps, chunkVars, cleanVars, ttsVars, textVars,
                   streamVars, bridgeVars>>

NextTrans == TcEnter \/ TcAttempt \/ TcFallThrough

SpecTrans == InitTrans /\ [][NextTrans]_vars

(***************************************************************************)
(* translate.py: translate_text.  One step for the entry (lines 141-165),  *)
(* one per finished call of translate_chunk, one for the join; the calls   *)
(* of translate_chunk run the steps TcEnter and TcAttempt above.  The      *)
(* limit of 4500 characters is scaled down to DirectLimit, so that texts   *)
(* of a few characters take the chunked strategy.  The handler of lines    *)
(* 195-198 has no step: neither chunk_text nor translate_chunk raises.     *)
(***************************************************************************)

\* stands for the 4500 of lines 152 and 160
DirectLimit == 3

\* the default of retry_count, line 81: translate_text passes none
DefaultRetry == 3

\* time.sleep(0.8), line 181, in tenths of a second
InterSegmentDelay == 8

\* line 141: not text or not text.strip()
is_blank_Falsy(is_none, text) == is_none \/ text = <<>>

is_blank(is_none, text) == is_none \/ text = <<>> \/ strip(text) = <<>>

\* line 152 with < in place of <=
is_short_StrictLess(text) == Len(text) < DirectLimit

\* line 152: len(text) <= 4500
is_short(text) == Len(text) <= DirectLimit

\* line 176: translated_chunk != chunk
counts_as_success_Always(translated_chunk, chunk) == TRUE

counts_as_success(translated_chunk, chunk) == translated_chunk # chunk

TextInputs ==
    {<<>>, <<SP>>, <<NL, SP>>,
     <<"a">>, <<SP, "a", SP>>, <<"a", ".", "b">>, <<SP, SP, "a", SP, SP>>,
     <<"a", ".", SP, "b">>, <<SP, "a", ".", "b", ".">>,
     <<".", ".", ".", ".">>,
     <<"a", SP, "b", ".", SP, "a">>}

TextLangs == {"es", "zh"}

InitText ==
    /\ tt_text \in TextInputs
    /\ tt_is_none \in (IF tt_text = <<>> THEN BOOLEAN ELSE {FALSE})
    /\ tt_lang \in TextLangs
    /\ tt_pc = "call"
    /\ tt_local = tt_text
    /\ tt_mode = "none"
    /\ tt_chunks = <<>>
    /\ tt_i = 0
    /\ tt_translated = <<>>
    /\ tt_successful = 0
    /\ tt_failed = 0
    /\ tt_log = <<>>
    /\ tt_result = <<>>
    /\ ChunkIdle /\ CleanIdle /\ TransIdle /\ TtsIdle
    /\ StreamIdle /\ BridgeIdle

\* translate_chunk(chunk, target_lang) is entered, lines 155 and 171
CallTranslateChunk(chunk, target_lang) ==
    /\ tc_chunk' = chunk
    /\ tc_lang' = target_lang
    /\ tc_retry' = DefaultRetry
    /\ tc_pc' = "call"
    /\ tc_target' = target_lang
    /\ tc_attempt' = 0
    /\ tc_calls' = <<>>
    /\ tc_sleeps' = <<>>
    /\ tc_result' = <<>>

\* the call of translate_chunk that has just returned, as an entry of tt_log
FinishedCall ==
    [ev |-> "translate_chunk", chunk |-> tc_chunk, target_lang |-> tc_lang,
     calls |-> tc_calls, sleeps |-> tc_sleeps, result |-> tc_result]

\* lines 141-165: the empty result for a blank text; else the text is
\* stripped, and a text within the limit goes to translate_chunk whole, a
\* longer one is split and its first segment goes to translate_chunk
TtEnter ==
    /\ tt_pc = "call"
    /\ IF is_blank(tt_is_none, tt_text)
       THEN /\ tt_result' = <<>>
            /\ tt_pc' = "returned"
            /\ UNCHANGED <<tt_local, tt_mode, tt_chunks, tt_i, tt_log, transVars>>
       ELSE LET text == strip(tt_text)
            IN  /\ tt_local' = text
                /\ UNCHANGED tt_result
                /\ IF is_short(text)
                   THEN /\ tt_mode' = "direct"
                        /\ tt_pc' = "direct"
                        /\ CallTranslateChunk(text, tt_lang)
                        /\ UNCHANGED <<tt_chunks, tt_i, tt_log>>
                   ELSE LET chunks == chunk_text(text, DirectLimit)
                        IN  /\ tt_mode' = "chunked"
                            /\ tt_chunks' = chunks
                            /\ tt_log' = Append(tt_log, [ev |-> "chunk_text",
                                                         text |-> text])
                            /\ IF chunks = <<>>
                               THEN /\ tt_pc' = "join"
                                    /\ UNCHANGED <<tt_i, transVars>>
                               ELSE /\ tt_pc' = "loop"
                                    /\ tt_i' = 1
                                    /\ CallTranslateChunk(chunks[1], tt_lang)
    /\ UNCHANGED <<tt_text, tt_is_none, tt_lang, tt_translated, tt_successful,
                   tt_failed, chunkVars, cleanVars, ttsVars,
                   streamVars, bridgeVars>>

\* lines 155-156: the direct call has returned, its result is the result
TtDirectReturn ==
    /\ tt_pc = "direct"
    /\ tc_pc = "returned"
    /\ tt_result' = tc_result
    /\ tt_log' = Append(tt_log, FinishedCall)
    /\ tt_pc' = "returned"
    /\ UNCHANGED <<tt_text, tt_is_none, tt_lang, tt_local, tt_mode, tt_chunks,
                   tt_i, tt_translated, tt_successful, tt_failed,
                   chunkVars, cleanVars, transVars, ttsVars,
                   streamVars, bridgeVars>>

\* the outcome of a segment put in front of the earlier ones
TtSegmentDone_Prepend ==
    /\ tt_pc = "loop"
    /\ tc_pc = "returned"
    /\ tt_translated' = <<tc_result>> \o tt_translated
    /\ IF counts_as_success(tc_result, tt_chunks[tt_i])
       THEN tt_successful' = tt_successful + 1 /\ UNCHANGED tt_failed
       ELSE tt_failed' = tt_failed + 1 /\ UNCHANGED tt_successful
    /\ IF tt_i < Len(tt_chunks)
       THEN /\ tt_log' = tt_log \o <<FinishedCall,
                                     [ev |-> "sleep", tenths |-> InterSegmentDelay]>>
            /\ tt_i' = tt_i + 1
            /\ CallTranslateChunk(tt_chunks[tt_i + 1], tt_lang)
            /\ UNCHANGED tt_pc
       ELSE /\ tt_log' = Append(tt_log, FinishedCall)
            /\ tt_pc' = "join"
            /\ UNCHANGED <<tt_i, transVars>>
    /\ UNCHANGED <<tt_text, tt_is_none, tt_lang, tt_local, tt_mode, tt_chunks,
                   tt_result, chunkVars, cleanVars, ttsVars,
                   streamVars, bridgeVars>>

\* the sleep of line 181 made after the last segment too
TtSegmentDone_SleepAfterLast ==
    /\ tt_pc = "loop"
    /\ tc_pc = "returned"
    /\ tt_translated' = Append(tt_translated, tc_result)
    /\ IF counts_as_success(tc_result, tt_chunks[tt_i])
       THEN tt_successful' = tt_successful + 1 /\ UNCHANGED tt_failed
       ELSE tt_failed' = tt_failed + 1 /\ UNCHANGED tt_successful
    /\ tt_log' = tt_log \o <<FinishedCall,
                              [ev |-> "sleep", tenths |-> InterSegmentDelay]>>
    /\ IF tt_i < Len(tt_chunks)
       THEN /\ tt_i' = tt_i + 1
            /\ CallTranslateChunk(tt_chunks[tt_i + 1], tt_lang)
            /\ UNCHANGED tt_pc
       ELSE /\ tt_pc' = "join"
            /\ UNCHANGED <<tt_i, transVars>>
    /\ UNCHANGED <<tt_text, tt_is_none, tt_lang, tt_local, tt_mode, tt_chunks,
                   tt_result, chunkVars, cleanVars, ttsVars,
                   streamVars, bridgeVars>>

\* lines 167-181: the call for segment i has returned; its outcome is
\* appended (172), counted as a success when it differs from the segment and
\* as a failure otherwise (175-178), and unless it was the last segment the
\* loop sleeps (180-181) and enters translate_chunk for the next one
TtSegmentDone ==
    /\ tt_pc = "loop"
    /\ tc_pc = "returned"
    /\ tt_translated' = Append(tt_translated, tc_result)
    /\ IF counts_as_success(tc_result, tt_chunks[tt_i])
       THEN tt_successful' = tt_successful + 1 /\ UNCHANGED tt_failed
       ELSE tt_failed' = tt_failed + 1 /\ UNCHANGED tt_successful
    /\ IF tt_i < Len(tt_chunks)
       THEN /\ tt_log' = tt_log \o <<FinishedCall,
                                     [ev |-> "sleep", tenths |-> InterSegmentDelay]>>
            /\ tt_i' = tt_i + 1
            /\ CallTranslateChunk(tt_chunks[tt_i + 1], tt_lang)
            /\ UNCHANGED tt_pc
       ELSE /\ tt_log' = Append(tt_log, FinishedCall)
            /\ tt_pc' = "join"
            /\ UNCHANGED <<tt_i, transVars>>
    /\ UNCHANGED <<tt_text, tt_is_none, tt_lang, tt_local, tt_mode, tt_chunks,
                   tt_result, chunkVars, cleanVars, ttsVars,
                   streamVars, bridgeVars>>

\* lines 184-193: " ".join(translated_chunks) is returned
TtJoin ==
    /\ tt_pc = "join"
    /\ tt_result' = join(<<SP>>, tt_translated)
    /\ tt_pc' = "returned"
    /\ UNCHANGED <<tt_text, tt_is_none, tt_lang, tt_local, tt_mode, tt_chunks,
                   tt_i, tt_translated, tt_successful, tt_failed, tt_log,
                   chunkVars, cleanVars, transVars, ttsVars,
                   streamVars, bridgeVars>>

\* TcFallThrough is no step here: retry_count is 3 in every call
NextText ==
    TtEnter \/ TtDirectReturn \/ TtSegmentDone \/ TtJoin \/ TcEnter \/ TcAttempt

SpecText == InitText /\ [][NextText]_vars

\* the longest text of a running call followed to its end
MaxLiveTextLen == 6

\* translate_text as a running call: once it is past its entry, a step that
\* can be taken is taken (the interpreter goes on, a sleep ends, a provider
\* call returns or raises)
NextAfterEntry == TtDirectReturn \/ TtSegmentDone \/ TtJoin \/ TcEnter \/ TcAttempt

InitTextLive == InitText /\ tt_lang = "zh" /\ Len(tt_text) <= MaxLiveTextLen

SpecTextLive == InitTextLive /\ [][NextText]_vars /\ WF_vars(NextAfterEntry)

(***************************************************************************)
(* tts.py: text_to_speech_with_voice and its fallback                      *)
(* text_to_speech_generate.  What a provider does at a call (it returns    *)
(* audio, or it raises) is chosen freely.                                  *)
(***************************************************************************)

TtsAlphabet == {"a", SP, NL, "."}
TtsTexts == SeqsUpTo(TtsAlphabet, MaxTtsLen)
VoiceTypes == {"male", "female", "MALE", "robot"}
\* line 236 computes in binary floating point: for each speed of the model (in
\* thousandths: 0.5, 0.895, 0.9, 1.0, 1.15, 1.5) the sign of the difference
\* between the double (speed - 1.0) * 100 and the exact product, e.g.
\* (0.9 - 1.0) * 100 = -9.999999999999998 and (1.15 - 1.0) * 100 = 14.999999999999991
ProductError ==
    ( 500 :> 0 @@ 895 :> 1 @@ 900 :> 1 @@ 1000 :> 0 @@ 1150 :> -1 @@ 1500 :> 0 )

\* the speed multipliers of the model, in thousandths
Speeds == DOMAIN ProductError

\* str.lower() on the voice types of the model
lower(s) == IF s = "MALE" THEN "male" ELSE s

\* line 184: lang.split('-')[0] if '-' in lang else lang
gtts_prefix(lang) == IF lang = "zh-CN" THEN "zh" ELSE lang

\* lines 184-187: the language handed to gTTS
gtts_language(lang) ==
    IF gtts_prefix(lang) \in GTTS_LANGUAGES THEN gtts_prefix(lang) ELSE "en"

\* an unknown language resolved in the female table whatever the gender
resolve_voice_FemaleEn(voice_type, lang) ==
    LET voice_map == DictGet(EDGE_VOICES, lower(voice_type), EDGE_VOICES["female"])
    IN  DictGet(voice_map, lang, EDGE_VOICES["female"]["en"])

\* lines 231-232
resolve_voice(voice_type, lang) ==
    LET voice_map == DictGet(EDGE_VOICES, lower(voice_type), EDGE_VOICES["female"])
    IN  DictGet(voice_map, lang, voice_map["en"])

\* get_available_voices, lines 256-269
get_available_voices(lang) ==
    [male   |-> DictGet(EDGE_VOICES["male"], lang, EDGE_VOICES["male"]["en"]),
     female |-> DictGet(EDGE_VOICES["female"], lang, EDGE_VOICES["female"]["en"])]

\* int(x) of a quotient: the fraction is cut off towards zero
TruncDiv(a, b) == IF a >= 0 THEN a \div b ELSE -((-a) \div b)

\* line 236: int((speed - 1.0) * 100), the speed in thousandths.  int() cuts
\* the double off towards zero: a product that is exactly a whole number n but
\* whose double lies just nearer to zero gives the whole number before n
rate_percent_of(speed) ==
    LET tenths == speed - 1000
        n == tenths \div 10
    IN  IF tenths % 10 # 0 THEN TruncDiv(tenths, 10)
        ELSE IF n > 0 /\ ProductError[speed] < 0 THEN n - 1
        ELSE IF n < 0 /\ ProductError[speed] > 0 THEN n + 1
        ELSE n

\* line 237: f"{rate_percent:+d}%"
format_rate(rate_percent) ==
    [sign |-> IF rate_percent >= 0 THEN "+" ELSE "-",
     digits |-> IF rate_percent >= 0 THEN rate_percent ELSE -rate_percent,
     unit |-> "%"]

\* line 252: slow = speed < 0.9
is_slow(speed) == speed < 900

ProviderResults == {"audio", "raise"}

InitTts ==
    /\ tts_text \in TtsTexts
    /\ tts_voice_type \in VoiceTypes
    /\ tts_speed \in Speeds
    /\ tts_lang \in LangInputs
    /\ tts_pc = "call"
    /\ tts_local = tts_text
    /\ tts_voice_name = ""
    /\ tts_rate_percent = 0
    /\ tts_cleaned = 0
    /\ tts_primary = <<>>
    /\ tts_secondary = <<>>
    /\ tts_result = NoAudio
    /\ ChunkIdle /\ CleanIdle /\ TransIdle /\ TextIdle
    /\ StreamIdle /\ BridgeIdle

\* lines 216-239: the text is normalized; an empty one raises ValueError, which
\* the handler of line 249 catches; otherwise the voice and the rate are set
TtsPrepare ==
    /\ tts_pc = "call"
    /\ LET cleaned == clean_text_for_tts(tts_text)
       IN  /\ tts_cleaned' = tts_cleaned + 1
           /\ IF strip(cleaned) = <<>>
              THEN /\ tts_local' = cleaned
                   /\ tts_pc' = "except"
                   /\ UNCHANGED <<tts_voice_name, tts_rate_percent>>
              ELSE /\ tts_local' = strip(cleaned)
                   /\ tts_voice_name' = resolve_voice(tts_voice_type, tts_lang)
                   /\ tts_rate_percent' = rate_percent_of(tts_speed)
                   /\ tts_pc' = "primary"
    /\ UNCHANGED <<tts_text, tts_voice_type, tts_speed, tts_lang, tts_primary,
                   tts_secondary, tts_result, chunkVars, cleanVars, transVars,
                   textVars, streamVars, bridgeVars>>

\* a failure of the primary provider raising to the caller, without fallback
TtsPrimary_NoFallback ==
    /\ tts_pc = "primary"
    /\ \E r \in ProviderResults :
        /\ tts_primary' = Append(tts_primary,
                                 [text |-> tts_local, voice |-> tts_voice_name,
                                  rate |-> format_rate(tts_rate_percent),
                                  outcome |-> r])
        /\ IF r = "audio"
           THEN /\ tts_result' = [provider |-> "edge", text |-> tts_local]
                /\ tts_pc' = "returned"
           ELSE /\ tts_pc' = "raised"
                /\ UNCHANGED tts_result
    /\ UNCHANGED <<tts_text, tts_voice_type, tts_speed, tts_lang, tts_local,
                   tts_voice_name, tts_rate_percent, tts_cleaned, tts_secondary,
                   chunkVars, cleanVars, transVars, textVars,
                   streamVars, bridgeVars>>

\* lines 242-247 (and 113-134, 137-162): the primary provider is called once;
\* its audio is returned, its exception goes to the handler of line 249
TtsPrimary ==
    /\ tts_pc = "primary"
    /\ \E r \in ProviderResults :
        /\ tts_primary' = Append(tts_primary,
                                 [text |-> tts_local, voice |-> tts_voice_name,
                                  rate |-> format_rate(tts_rate_percent),
                                  outcome |-> r])
        /\ IF r = "audio"
           THEN /\ tts_result' = [provider |-> "edge", text |-> tts_local]
                /\ tts_pc' = "returned"
           ELSE /\ tts_pc' = "except"
                /\ UNCHANGED tts_result
    /\ UNCHANGED <<tts_text, tts_voice_type, tts_speed, tts_lang, tts_local,
                   tts_voice_name, tts_rate_percent, tts_cleaned, tts_secondary,
                   chunkVars, cleanVars, transVars, textVars,
                   streamVars, bridgeVars>>

\* the fallback without the normalization of line 179
TtsFallback_NoClean ==
    /\ tts_pc = "except"
    /\ \E r \in ProviderResults :
        /\ tts_secondary' = Append(tts_secondary,
                                   [text |-> tts_local,
                                    lang |-> gtts_language(tts_lang),
                                    slow |-> is_slow(tts_speed),
                                    outcome |-> r])
        /\ IF r = "audio"
           THEN /\ tts_result' = [provider |-> "gtts", text |-> tts_local]
                /\ tts_pc' = "returned"
           ELSE /\ tts_pc' = "raised"
                /\ UNCHANGED tts_result
    /\ UNCHANGED <<tts_text, tts_voice_type, tts_speed, tts_lang, tts_local,
                   tts_voice_name, tts_rate_percent, tts_cleaned, tts_primary,
                   chunkVars, cleanVars, transVars, textVars,
                   streamVars, bridgeVars>>

\* lines 249-253 and text_to_speech_generate, lines 165-200: the text is
\* normalized (179), the language is fitted to gTTS (184-187), the secondary
\* provider is called once (189-192); its audio is returned (196), its exception
\* is raised again as "Text-to-speech failed" (198-200)
TtsFallback ==
    /\ tts_pc = "except"
    /\ LET text == clean_text_for_tts(tts_local)
       IN  /\ tts_cleaned' = tts_cleaned + 1
           /\ tts_local' = text
           /\ \E r \in ProviderResults :
                /\ tts_secondary' = Append(tts_secondary,
                                           [text |-> text,
                                            lang |-> gtts_language(tts_lang),
                                            slow |-> is_slow(tts_speed),
                                            outcome |-> r])
                /\ IF r = "audio"
                   THEN /\ tts_result' = [provider |-> "gtts", text |-> text]
                        /\ tts_pc' = "returned"
                   ELSE /\ tts_pc' = "raised"
                        /\ UNCHANGED tts_result
    /\ UNCHANGED <<tts_text, tts_voice_type, tts_speed, tts_lang, tts_voice_name,
                   tts_rate_percent, tts_primary, chunkVars, cleanVars, transVars,
                   textVars, streamVars, bridgeVars>>

NextTts == TtsPrepare \/ TtsPrimary \/ TtsFallback

SpecTts == InitTts /\ [][NextTts]_vars

(***************************************************************************)
(* tts.py: generate_edge_tts_async.  One step per event of the provider's  *)
(* stream; which event arrives, and whether the stream goes on, ends or    *)
(* fails, is chosen freely.                                                *)
(***************************************************************************)

\* the longest stream followed
MaxStreamLen == 3

\* the events communicate.stream() yields: audio events carry bytes, the
\* others (word and sentence boundaries) carry text and times
StreamEvents ==
    {[type |-> "audio", data |-> <<1>>],
     [type |-> "audio", data |-> <<2, 3>>],
     [type |-> "audio", data |-> <<>>],
     [type |-> "WordBoundary", text |-> <<4>>],
     [type |-> "SentenceBoundary", text |-> <<5>>]}

\* io.BytesIO(), line 127
BytesIO == [data |-> <<>>, pos |-> 0]

\* a write that starts at the head of the buffer whatever was written before
write_AtStart(buffer, bytes) ==
    [data |-> bytes \o SubSeq(buffer.data, Len(bytes) + 1, Len(buffer.data)),
     pos  |-> Len(bytes)]

\* audio_data.write(bytes), line 131: the bytes go in at the position, over
\* what is there, and the position moves behind them
write(buffer, bytes) ==
    [data |-> SubSeq(buffer.data, 1, buffer.pos) \o bytes
              \o SubSeq(buffer.data, buffer.pos + Len(bytes) + 1, Len(buffer.data)),
     pos  |-> buffer.pos + Len(bytes)]

\* audio_data.seek(0), line 133
seek0(buffer) == [buffer EXCEPT !.pos = 0]

InitStream ==
    /\ sm_pc = "streaming"
    /\ sm_stream = "open"
    /\ sm_seen = <<>>
    /\ sm_audio_data = BytesIO
    /\ sm_result = NoBuffer
    /\ ChunkIdle /\ CleanIdle /\ TransIdle /\ TtsIdle /\ TextIdle /\ BridgeIdle

\* lines 129-131: the next event arrives; the data of an audio event is
\* written to the buffer
StreamEvent ==
    /\ sm_pc = "streaming"
    /\ Len(sm_seen) < MaxStreamLen
    /\ \E chunk \in StreamEvents :
        /\ sm_seen' = Append(sm_seen, chunk)
        /\ sm_audio_data' = IF chunk.type = "audio"
                            THEN write(sm_audio_data, chunk.data)
                            ELSE sm_audio_data
    /\ UNCHANGED <<sm_pc, sm_stream, sm_result, chunkVars, cleanVars, transVars,
                   ttsVars, textVars, bridgeVars>>

\* lines 129, 133-134: the stream is exhausted; the buffer is rewound and
\* returned
StreamComplete ==
    /\ sm_pc = "streaming"
    /\ sm_stream' = "done"
    /\ sm_audio_data' = seek0(sm_audio_data)
    /\ sm_result' = seek0(sm_audio_data)
    /\ sm_pc' = "returned"
    /\ UNCHANGED <<sm_seen, chunkVars, cleanVars, transVars, ttsVars, textVars,
                   bridgeVars>>

\* line 129: the stream raises (no connection, no audio received); nothing
\* catches it here, the coroutine ends with the exception
StreamError ==
    /\ sm_pc = "streaming"
    /\ sm_stream' = "failed"
    /\ sm_pc' = "raised"
    /\ UNCHANGED <<sm_seen, sm_audio_data, sm_result, chunkVars, cleanVars,
                   transVars, ttsVars, textVars, bridgeVars>>

NextStream == StreamEvent \/ StreamComplete \/ StreamError

SpecStream == InitStream /\ [][NextStream]_vars

(***************************************************************************)
(* tts.py: run_async_in_sync.  The event loop of the calling thread, the   *)
(* interpreter's version and what the coroutine does are inputs; asyncio   *)
(* and nest_asyncio behave as documented: get_event_loop raises            *)
(* RuntimeError in a thread without a loop, run_until_complete raises it   *)
(* on a closed loop and on a running loop that nest_asyncio has not        *)
(* patched, a coroutine that has been awaited cannot be run again, and a   *)
(* second loop cannot be run in a thread whose loop is running.            *)
(***************************************************************************)

\* the most awaits of a coroutine followed
MaxAwaits == 2

LoopStates == {"none", "idle", "running", "closed"}

\* how the coroutine ends when it is run: with its result, with a
\* RuntimeError, with another exception
Fates == {"result", "RuntimeError", "Exception"}

CoroutineResult == "audio"

InitBridge ==
    /\ br_loop \in LoopStates
    /\ br_py37 \in BOOLEAN
    /\ br_fate \in Fates
    /\ br_awaits \in 0..MaxAwaits
    /\ br_pc = "call"
    /\ br_coro = "created"
    /\ br_left = br_awaits
    /\ br_patched = FALSE
    /\ br_result = "none"
    /\ br_error = NoError
    /\ ChunkIdle /\ CleanIdle /\ TransIdle /\ TtsIdle /\ TextIdle /\ StreamIdle

\* a running loop entered without nest_asyncio: run_until_complete raises
\* RuntimeError at once
BrGetLoop_NoPatch ==
    /\ br_pc = "call"
    /\ br_pc' = IF br_loop = "idle" THEN "run_until_complete" ELSE "except"
    /\ UNCHANGED <<br_loop, br_py37, br_fate, br_awaits, br_coro, br_left,
                   br_patched, br_result, br_error, chunkVars, cleanVars,
                   transVars, ttsVars, textVars, streamVars>>

\* lines 142-150: get_event_loop raises RuntimeError when the thread has no
\* loop; a running loop is patched by nest_asyncio and runs the coroutine
\* nested, an idle one runs it, a closed one raises RuntimeError
BrGetLoop ==
    /\ br_pc = "call"
    /\ br_patched' = (br_loop = "running")
    /\ br_pc' = IF br_loop \in {"idle", "running"} THEN "run_until_complete"
                ELSE "except"
    /\ UNCHANGED <<br_loop, br_py37, br_fate, br_awaits, br_coro, br_left,
                   br_result, br_error, chunkVars, cleanVars, transVars,
                   ttsVars, textVars, streamVars>>

RunningCoroutine == br_pc \in {"run_until_complete", "asyncio_run", "new_loop"}

\* the loop runs the coroutine up to its next await
BrRunStep ==
    /\ RunningCoroutine
    /\ br_left > 0
    /\ br_left' = br_left - 1
    /\ br_coro' = "started"
    /\ UNCHANGED <<br_loop, br_py37, br_fate, br_awaits, br_pc, br_patched,
                   br_result, br_error, chunkVars, cleanVars, transVars,
                   ttsVars, textVars, streamVars>>

\* the coroutine ends: its result is returned (lines 148, 150, 154, 159); its
\* exception goes to the caller, but a RuntimeError raised inside the try
\* block of line 142 is caught by line 151
BrRunEnd ==
    /\ RunningCoroutine
    /\ br_left = 0
    /\ br_coro' = "finished"
    /\ IF br_fate = "result"
       THEN /\ br_result' = CoroutineResult
            /\ br_pc' = "returned"
            /\ UNCHANGED br_error
       ELSE IF br_fate = "RuntimeError" /\ br_pc = "run_until_complete"
            THEN /\ br_pc' = "except"
                 /\ UNCHANGED <<br_result, br_error>>
            ELSE /\ br_pc' = "raised"
                 /\ br_error' = [type |-> br_fate, origin |-> "coroutine"]
                 /\ UNCHANGED br_result
    /\ UNCHANGED <<br_loop, br_py37, br_fate, br_awaits, br_left, br_patched,
                   chunkVars, cleanVars, transVars, ttsVars, textVars,
                   streamVars>>

\* lines 151-162: asyncio.run(coro), or before 3.7 a new loop that is closed
\* afterwards; both raise RuntimeError for a coroutine that has already been
\* awaited and in a thread whose loop is running unpatched
BrExcept ==
    /\ br_pc = "except"
    /\ IF br_coro # "created" \/ (br_loop = "running" /\ ~br_patched)
       THEN /\ br_pc' = "raised"
            /\ br_error' = [type |-> "RuntimeError", origin |-> "asyncio"]
       ELSE /\ br_pc' = IF br_py37 THEN "asyncio_run" ELSE "new_loop"
            /\ UNCHANGED br_error
    /\ UNCHANGED <<br_loop, br_py37, br_fate, br_awaits, br_coro, br_left,
                   br_patched, br_result, chunkVars, cleanVars, transVars,
                   ttsVars, textVars, streamVars>>

NextBridge == BrGetLoop \/ BrRunStep \/ BrRunEnd \/ BrExcept

\* the thread goes on: a step that can be taken is taken, every await of the
\* coroutine ends
SpecBridge == InitBridge /\ [][NextBridge]_vars /\ WF_vars(NextBridge)

(***************************************************************************)
(* Properties of chunk_text, checked under SpecChunk.                      *)
(***************************************************************************)

\* the characters that end a sentence for chunk_text (line 48)
Terminators == {".", "!", "?"}

\* the words of a text: its maximal runs of characters that are neither
\* whitespace nor a sentence terminator
RECURSIVE words_acc(_, _)
words_acc(s, cur) ==
    LET flush == IF cur = <<>> THEN <<>> ELSE <<cur>>
    IN  IF s = <<>> THEN flush
        ELSE IF Head(s) \in Whitespace \cup Terminators
             THEN flush \o words_acc(Tail(s), <<>>)
             ELSE words_acc(Tail(s), Append(cur, Head(s)))

WordsOf(s) == words_acc(s, <<>>)

\* a segment that is one single word longer than the limit
IsOversizedWord(segment, max_chunk_size) ==
    Len(split_ws(segment)) = 1 /\ Len(segment) > max_chunk_size

\* sentences of words set apart by one space, each ended by a terminator
WellFormedSentences(text) ==
    /\ text # <<>>
    /\ text[1] \notin Whitespace \cup Terminators
    /\ text[Len(text)] \in Terminators
    /\ \A i \in 1..Len(text) : text[i] # NL
    /\ \A i \in 1..(Len(text) - 1) :
        /\ text[i] \in Terminators => text[i + 1] = SP
        /\ text[i] = SP => text[i + 1] \notin Whitespace \cup Terminators

\* C1: every segment chunk_text returns has length <= max_chunk_size, unless the
\* segment is one single word that is itself longer than max_chunk_size.
C1_SegmentsWithinLimit ==
    ck_pc = "returned" =>
        \A i \in 1..Len(ck_chunks) :
            \/ Len(ck_chunks[i]) <= ck_max
            \/ IsOversizedWord(ck_chunks[i], ck_max)

\* C7: for a text longer than max_chunk_size the words of the segments, read
\* segment after segment, are the words of the text in their order: none is
\* dropped, duplicated or moved.  (It holds of every such text, of the ones made
\* of well-formed sentences in particular.)
C7_WordsPreserved ==
    (ck_pc = "returned" /\ Len(ck_text) > ck_max) =>
        WordsOf(join(<<SP>>, ck_chunks)) = WordsOf(ck_text)

\* C7's case: well-formed sentences, longer than the limit, cut into several
\* segments that hold two different words
C7_Witness ==
    /\ ck_pc = "returned"
    /\ Len(ck_text) > ck_max
    /\ WellFormedSentences(ck_text)
    /\ Len(ck_chunks) >= 2
    /\ WordsOf(ck_text) = <<<<"a">>, <<"b">>>>

\* C12: for a text of at most max_chunk_size characters chunk_text returns
\* exactly one segment, the text itself, unchanged.
C12_ShortTextUnchanged ==
    (ck_pc = "returned" /\ Len(ck_text) <= ck_max) => ck_chunks = <<ck_text>>

\* C12's case: a text exactly as long as the limit, with whitespace at its ends
\* and two sentences, that came back as it was
C12_Witness ==
    /\ ck_pc = "returned"
    /\ Len(ck_text) = ck_max
    /\ ck_text = <<SP, "a", ".", "b">>
    /\ ck_chunks = <<ck_text>>

(***************************************************************************)
(* Properties of translate_chunk, checked under SpecTrans.                 *)
(***************************************************************************)

AllCallsFailed == \A i \in 1..Len(tc_calls) : IsFailure(tc_calls[i].outcome)

\* C2: against a provider that fails at every call (it raises, or returns an
\* empty or no result) translate_chunk makes exactly retry_count provider calls
\* and returns the chunk unchanged.
C2_AlwaysFailingProvider ==
    (tc_pc = "returned" /\ AllCallsFailed) =>
        /\ Len(tc_calls) = tc_retry
        /\ tc_result = tc_chunk

\* C2's case: three attempts that failed in the three ways
C2_Witness ==
    /\ tc_pc = "returned"
    /\ tc_retry = 3
    /\ Len(tc_calls) = 3
    /\ tc_calls[1].outcome.kind = "raise"
    /\ tc_calls[2].outcome = [kind |-> "str", text |-> <<>>]
    /\ tc_calls[3].outcome.kind = "none"
    /\ tc_result = tc_chunk

\* C3: translate_chunk never raises, whatever the provider does: it can always
\* go on until it returns, and it returns a non-empty provider result or the
\* chunk.
C3_NeverRaises ==
    /\ tc_pc # "raised"
    /\ tc_pc \in {"call", "loop"} => ENABLED NextTrans
    /\ tc_pc = "returned" =>
        \/ tc_result = tc_chunk
        \/ /\ tc_calls # <<>>
           /\ tc_calls[Len(tc_calls)].outcome.kind = "str"
           /\ tc_result = tc_calls[Len(tc_calls)].outcome.text
           /\ tc_result # <<>>

\* C3's case: a missing result, then a raise at the last attempt; the chunk comes back
C3_Witness ==
    /\ tc_pc = "returned"
    /\ tc_retry = 2
    /\ Len(tc_calls) = 2
    /\ tc_calls[1].outcome.kind = "none"
    /\ tc_calls[2].outcome.kind = "raise"
    /\ tc_result = tc_chunk

\* C6: the target language translate_chunk hands to the provider is a value of
\* the language table: a known code is mapped through it, an unknown one is
\* replaced by en.
C6_TargetInAliasTable ==
    \A i \in 1..Len(tc_calls) :
        /\ tc_calls[i].target \in {LANGUAGE_MAP[l] : l \in DOMAIN LANGUAGE_MAP}
        /\ tc_calls[i].target = validate_language_code(tc_lang)

RECURSIVE SumSeq(_)
SumSeq(q) == IF q = <<>> THEN 0 ELSE Head(q) + SumSeq(Tail(q))

PrimaryRaised == tts_primary # <<>> /\ tts_primary[1].outcome = "raise"

\* C4: when the primary provider raises, text_to_speech_with_voice calls the
\* secondary provider, once, and ends as that call ends: it returns the audio
\* the secondary provider made and does not raise the primary's failure.
C4_FallbackOnPrimaryFailure ==
    PrimaryRaised =>
        /\ tts_pc \in {"except", "returned", "raised"}
        /\ tts_pc # "except" =>
            /\ Len(tts_secondary) = 1
            /\ IF tts_secondary[1].outcome = "audio"
               THEN /\ tts_pc = "returned"
                    /\ tts_result = [provider |-> "gtts", text |-> tts_secondary[1].text]
               ELSE tts_pc = "raised"

\* C4's case: a non-empty text in a supported language, the primary raised and
\* the audio of the secondary came back
C4_Witness ==
    /\ PrimaryRaised
    /\ tts_text # <<>>
    /\ tts_lang = "ta"
    /\ tts_pc = "returned"
    /\ tts_result.provider = "gtts"
    /\ tts_result.text # <<>>

\* C5: an input whose normalized text is empty ends in a fatal error and never
\* in an audio buffer, whatever the providers do.
C5_EmptyTextIsFatal ==
    (tts_pc \in {"returned", "raised"} /\ clean_text_for_tts(tts_text) = <<>>) =>
        /\ tts_pc = "raised"
        /\ tts_result = NoAudio

\* the voice has been resolved: the request got past line 232
VoiceResolved == tts_pc = "primary" \/ tts_primary # <<>>

\* every voice identifier of the table
AllVoices ==
    {EDGE_VOICES[g][l] : g \in {"male", "female"}, l \in DOMAIN EDGE_VOICES["male"]}

\* C13: the resolved voice is an identifier of the table: an unrecognized
\* gender resolves in the female table, a language the gender's table lacks
\* resolves to that gender's en voice (xx with male gives the en male voice).
C13_VoiceResolution ==
    /\ VoiceResolved =>
        LET gender == IF lower(tts_voice_type) \in {"male", "female"}
                      THEN lower(tts_voice_type) ELSE "female"
            language == IF tts_lang \in DOMAIN EDGE_VOICES[gender]
                        THEN tts_lang ELSE "en"
        IN  /\ tts_voice_name \in AllVoices
            /\ tts_voice_name = EDGE_VOICES[gender][language]
            /\ (tts_lang = "xx" /\ tts_voice_type = "male") =>
                    tts_voice_name = "en-US-GuyNeural"
            /\ \A i \in 1..Len(tts_primary) : tts_primary[i].voice = tts_voice_name
    /\ get_available_voices(tts_lang).male \in AllVoices
    /\ get_available_voices(tts_lang).female \in AllVoices
    /\ tts_lang \notin DOMAIN EDGE_VOICES["male"] =>
            get_available_voices(tts_lang) =
                [male |-> "en-US-GuyNeural", female |-> "en-US-JennyNeural"]

\* C13's case: the language xx asked of the male voice, handed to the provider
C13_Witness ==
    /\ tts_lang = "xx"
    /\ tts_voice_type = "male"
    /\ tts_primary # <<>>
    /\ tts_primary[1].voice = "en-US-GuyNeural"

\* C14: the rate handed to the primary provider is round((speed - 1.0) * 100)
\* as a signed percentage: a whole number nearest to the product (a tie may go
\* either way), "+" for zero and above, "-" below.
C14_RateIsRounded ==
    \A i \in 1..Len(tts_primary) :
        LET rate == tts_primary[i].rate
            percent == IF rate.sign = "+" THEN rate.digits ELSE -rate.digits
            distance == 10 * percent - (tts_speed - 1000)
        IN  /\ rate.unit = "%"
            /\ rate.sign = (IF percent >= 0 THEN "+" ELSE "-")
            /\ distance <= 5
            /\ -distance <= 5

SecondaryRaised == tts_secondary # <<>> /\ tts_secondary[1].outcome = "raise"

\* C16: in one request the primary provider is called at most once and the
\* secondary at most once, the secondary only after the primary call has
\* failed; when the secondary fails too the request ends in an error and no
\* provider is called again.
C16_ProviderCallOrder ==
    /\ Len(tts_primary) <= 1
    /\ Len(tts_secondary) <= 1
    /\ tts_secondary # <<>> => PrimaryRaised
    /\ SecondaryRaised => (tts_pc = "raised" /\ ~ENABLED NextTts)

\* C17, as the specification states it: the secondary provider gets the text
\* the primary path normalized, and the text is normalized exactly once per
\* request.
C17_NormalizedOnce ==
    tts_pc \in {"returned", "raised"} =>
        /\ tts_cleaned = 1
        /\ \A i \in 1..Len(tts_secondary) :
                tts_secondary[i].text = clean_text_for_tts(tts_text)

\* C17, amended: the secondary provider gets the normalized text of the
\* request, the same the primary provider got; the text is normalized once
\* when the request does not fall back and a second time, which changes
\* nothing, when it does.
C17_FallbackTextNormalized ==
    /\ \A i \in 1..Len(tts_secondary) :
        /\ tts_secondary[i].text = clean_text_for_tts(tts_text)
        /\ \A j \in 1..Len(tts_primary) : tts_secondary[i].text = tts_primary[j].text
    /\ tts_pc \in {"returned", "raised"} =>
            tts_cleaned = (IF tts_secondary # <<>> THEN 2 ELSE 1)

\* C17's case: the primary raised on a text the normalization had changed, and
\* the secondary was called
C17_Witness ==
    /\ PrimaryRaised
    /\ tts_secondary # <<>>
    /\ tts_text = <<"a", NL, "a">>
    /\ tts_secondary[1].text = <<"a", SP, "a", ".">>
    /\ tts_cleaned = 2

\* C18: the language handed to the secondary provider is one it supports, and
\* en takes the place of the requested language only when that one is not
\* supported: a supported one (zh-CN too) is the language of the call.
C18_FallbackLanguage ==
    \A i \in 1..Len(tts_secondary) :
        /\ tts_secondary[i].lang \in GTTS_LANGUAGES
        /\ tts_lang \in GTTS_LANGUAGES => tts_secondary[i].lang = tts_lang

(***************************************************************************)
(* Properties of translate_text, checked under SpecText.                   *)
(***************************************************************************)

\* the finished calls of translate_chunk, in order
TranslateEvents == SelectSeq(tt_log, LAMBDA e : e.ev = "translate_chunk")

\* no text, or a text of nothing but whitespace
BlankInput == tt_is_none \/ \A k \in 1..Len(tt_text) : tt_text[k] \in Whitespace

\* C11: for an empty, missing or whitespace-only text translate_text returns
\* the empty string, and neither the provider is called nor a sleep made.
C11_BlankTextReturnsEmpty ==
    BlankInput =>
        /\ tt_pc \in {"call", "returned"}
        /\ tt_pc = "returned" => tt_result = <<>>
        /\ tt_log = <<>>
        /\ tc_pc = "idle" /\ tc_calls = <<>> /\ tc_sleeps = <<>>

\* C11's case: a text of a newline and a space has been answered
C11_Witness ==
    /\ tt_text = <<NL, SP>>
    /\ tt_pc = "returned"
    /\ tt_result = <<>>

\* where outcome j starts in the joined result, less one
RECURSIVE Offset(_)
Offset(j) == IF j <= 1 THEN 0 ELSE Offset(j - 1) + Len(tt_translated[j - 1]) + 1

\* what translate_chunk gives for a finished call e: the last provider result
\* when that is a non-empty str, else the chunk
OutcomeOf(e) ==
    IF e.calls # <<>> /\ IsValidTranslation(e.calls[Len(e.calls)].outcome)
    THEN e.calls[Len(e.calls)].outcome.text
    ELSE e.chunk

\* C15: in chunked mode the segments are translated one after another in
\* their order, outcome j is the outcome of segment j, and the result is the
\* outcomes in that order with one space between neighbours, whichever
\* segments succeeded.
C15_OutcomesInSegmentOrder ==
    tt_mode = "chunked" =>
        /\ Len(TranslateEvents) = Len(tt_translated)
        /\ \A j \in 1..Len(tt_translated) :
            /\ TranslateEvents[j].chunk = tt_chunks[j]
            /\ tt_translated[j] = OutcomeOf(TranslateEvents[j])
        /\ tt_pc = "loop" =>
            /\ Len(tt_translated) = tt_i - 1
            /\ tc_pc # "idle" => tc_chunk = tt_chunks[tt_i]
        /\ tt_pc = "returned" =>
            /\ Len(tt_translated) = Len(tt_chunks)
            /\ Len(tt_result) = Offset(Len(tt_translated) + 1)
                                    - (IF tt_translated = <<>> THEN 0 ELSE 1)
            /\ \A j \in 1..Len(tt_translated) :
                /\ SubSeq(tt_result, Offset(j) + 1,
                          Offset(j) + Len(tt_translated[j])) = tt_translated[j]
                /\ j > 1 => tt_result[Offset(j)] = SP

\* C15's case: three segments, the second kept as it was and the others
\* translated
C15_Witness ==
    /\ tt_pc = "returned"
    /\ tt_chunks = << <<"a">>, <<"b">>, <<"a", ".">> >>
    /\ tt_translated = << <<"T", "a">>, <<"b">>, <<"T", "a", ".">> >>
    /\ tt_result = <<"T", "a", SP, "b", SP, "T", "a", ".">>

\* the finished calls whose result is the chunk they were given
IdenticalOutcomes ==
    {j \in 1..Len(TranslateEvents) :
        TranslateEvents[j].result = TranslateEvents[j].chunk}

\* C19, as the specification states it: in every call the two counts add up
\* to the number of segments processed, one in direct mode, and a segment is
\* counted as failed exactly when its outcome is identical to it.
C19_CountsEverySegment ==
    tt_pc = "returned" =>
        /\ tt_successful + tt_failed = Len(TranslateEvents)
        /\ tt_failed = Cardinality(IdenticalOutcomes)

\* C19, amended: in chunked mode the two counts add up to the number of
\* segments processed, and a segment is counted as failed exactly when its
\* outcome is identical to it, also when the provider returned that text; in
\* direct mode no counts are kept.
C19_ChunkedCounts ==
    /\ tt_mode = "chunked" =>
        /\ tt_successful + tt_failed = Len(TranslateEvents)
        /\ tt_failed = Cardinality(IdenticalOutcomes)
        /\ tt_pc = "returned" => tt_successful + tt_failed = Len(tt_chunks)
    /\ tt_mode # "chunked" => tt_successful = 0 /\ tt_failed = 0

\* C19's case: two segments, the first translated, the second given back
\* unchanged by the provider at its first call and counted as failed
C19_Witness ==
    /\ tt_pc = "returned"
    /\ Len(tt_chunks) = 2
    /\ tt_successful = 1
    /\ tt_failed = 1
    /\ TranslateEvents[2].calls =
            <<[target |-> NormalizeTarget(tt_lang),
               outcome |-> [kind |-> "str", text |-> tt_chunks[2]]]>>

\* the calls of chunk_text made so far
SplitEvents == SelectSeq(tt_log, LAMBDA e : e.ev = "chunk_text")

\* the sleeps translate_text has made itself so far
DelayEvents == SelectSeq(tt_log, LAMBDA e : e.ev = "sleep")

\* the text without the whitespace at its ends
Trimmed == strip(tt_text)

C22_InterSegmentDelays ==
    tt_mode = "chunked" =>
        /\ \A k \in 1..Len(DelayEvents) : DelayEvents[k].tenths = 8
        /\ \A k \in 2..Len(tt_log) :
            /\ k % 2 = 0 => tt_log[k].ev = "translate_chunk"
            /\ k % 2 = 1 => tt_log[k].ev = "sleep"
        /\ tt_pc = "loop" =>
            /\ Len(DelayEvents) = tt_i - 1
            /\ Len(TranslateEvents) = tt_i - 1
        /\ (tt_pc \in {"join", "returned"} /\ tt_chunks # <<>>) =>
            /\ Len(DelayEvents) = Len(tt_chunks) - 1
            /\ tt_log[Len(tt_log)].ev = "translate_chunk"
        /\ tt_chunks = <<>> => DelayEvents = <<>>

\* C22's case: three segments, the first of which failed, and two sleeps
C22_Witness ==
    /\ tt_pc = "returned"
    /\ Len(tt_chunks) = 3
    /\ tt_translated[1] = tt_chunks[1]
    /\ tt_translated[3] # tt_chunks[3]
    /\ Len(DelayEvents) = 2

RECURSIVE CallsIn(_)
CallsIn(events) ==
    IF events = <<>> THEN 0 ELSE Len(Head(events).calls) + CallsIn(Tail(events))

\* the segments of the request: the stripped text in direct mode, those of
\* chunk_text in chunked mode, none for a blank text
SegmentCount ==
    IF tt_mode = "direct" THEN 1
    ELSE IF tt_mode = "chunked" THEN Len(tt_chunks) ELSE 0

\* no provider call after a non-empty result: every call but the last failed
StopsAtFirstResult(calls) ==
    \A k \in 1..(Len(calls) - 1) : IsFailure(calls[k].outcome)

CallBounds ==
    /\ \A j \in 1..Len(TranslateEvents) :
        /\ Len(TranslateEvents[j].calls) >= 1
        /\ Len(TranslateEvents[j].calls) <= 3
        /\ StopsAtFirstResult(TranslateEvents[j].calls)
    /\ Len(tc_calls) <= 3
    /\ StopsAtFirstResult(tc_calls)
    /\ tc_pc = "loop" => AllCallsFailed
    /\ tt_pc = "returned" =>
        /\ Len(TranslateEvents) = SegmentCount
        /\ CallsIn(TranslateEvents) >= SegmentCount
        /\ CallsIn(TranslateEvents) <= 3 * SegmentCount

\* C24: whatever the provider answers, a call of translate_text that is past
\* its entry returns in the end; for n segments it makes at least n and at
\* most 3 n provider calls, and none for a segment after that segment's first
\* non-empty result.
C24_ReturnsWithinCallBounds ==
    /\ (tt_pc # "call") ~> (tt_pc = "returned")
    /\ []CallBounds

\* C24's case: three segments, all nine provider calls failed, and the
\* request has returned
C24_Witness ==
    /\ tt_pc = "returned"
    /\ Len(tt_chunks) = 3
    /\ CallsIn(TranslateEvents) = 9

(***************************************************************************)
(* Properties of generate_edge_tts_async, checked under SpecStream.        *)
(***************************************************************************)

\* the data of the audio events of a stream, one after another
RECURSIVE AudioOf(_)
AudioOf(events) ==
    IF events = <<>> THEN <<>>
    ELSE (IF Head(events).type = "audio" THEN Head(events).data ELSE <<>>)
         \o AudioOf(Tail(events))

\* C23: the buffer generate_edge_tts_async returns holds the data of the
\* audio events of the stream, in the order of their arrival, and nothing
\* else; it is returned, rewound, only when the stream has ended, and a
\* stream that fails gives no buffer.
C23_BufferIsAudioInOrder ==
    /\ sm_pc = "streaming" =>
        /\ sm_audio_data.data = AudioOf(sm_seen)
        /\ sm_result = NoBuffer
    /\ sm_pc = "returned" =>
        /\ sm_stream = "done"
        /\ sm_result.data = AudioOf(sm_seen)
        /\ sm_result.pos = 0
    /\ sm_pc = "raised" =>
        /\ sm_stream = "failed"
        /\ sm_result = NoBuffer

\* C23's case: two audio events with a word boundary between them
C23_Witness ==
    /\ sm_pc = "returned"
    /\ sm_seen = <<[type |-> "audio", data |-> <<1>>],
                   [type |-> "WordBoundary", text |-> <<4>>],
                   [type |-> "audio", data |-> <<2, 3>>]>>
    /\ sm_result = [data |-> <<1, 2, 3>>, pos |-> 0]

(***************************************************************************)
(* Properties of run_async_in_sync, checked under SpecBridge.              *)
(***************************************************************************)

\* what the caller gets is what the coroutine did
BridgeOutcome ==
    /\ br_pc = "returned" =>
        /\ br_fate = "result"
        /\ br_coro = "finished"
        /\ br_result = "audio"
    /\ br_pc = "raised" =>
        /\ br_fate # "result"
        /\ br_coro = "finished"
        /\ br_error.type = br_fate
    /\ br_pc \notin {"returned", "raised"} =>
        (br_result = "none" /\ br_error = NoError)

\* C25: called in a thread without an event loop, with an idle loop or from
\* inside a running loop, run_async_in_sync comes to an end: it returns the
\* result of the coroutine, or the coroutine has failed and an exception goes
\* to the caller.
C25_BridgeEnds ==
    /\ <>(br_pc \in {"returned", "raised"})
    /\ []BridgeOutcome

\* C25's case: called from inside a running loop, a coroutine of two awaits
\* has given its result
C25_Witness ==
    /\ br_loop = "running"
    /\ br_awaits = 2
    /\ br_pc = "returned"
    /\ br_result = "audio"

(***************************************************************************)
(* Properties of clean_text_for_tts, checked under SpecClean.              *)
(***************************************************************************)

\* C8: clean_text_for_tts is idempotent: normalizing what it returned returns
\* the same text.
C8_Idempotent == nz_pc = "twice" => nz_out2 = nz_out

\* C8's case: a text the first call changed by joining a line break, normalized twice
C8_Witness ==
    /\ nz_pc = "twice"
    /\ \E i \in 1..Len(nz_text) : nz_text[i] = NL
    /\ \E i \in 1..Len(nz_text) : nz_text[i] = ","
    /\ Len(nz_out) >= 4
    /\ nz_out2 = nz_out

\* two runs of letters with a hyphen and a line break between them
IsHyphenWrapped(text) ==
    \E i \in 2..(Len(text) - 2) :
        /\ text[i] = "-"
        /\ text[i + 1] = NL
        /\ \A j \in (1..Len(text)) \ {i, i + 1} : text[j] \in Letters

LettersOf(text) == SelectSeq(text, LAMBDA c : c \in Letters)

\* C9: a hyphen right before a line break goes together with the line break, the
\* two halves of the word are joined with nothing between them: "exam-\nple"
\* becomes "example.".
C9_HyphenBreakRemoved ==
    /\ (nz_pc \in {"once", "twice"} /\ IsHyphenWrapped(nz_text)) =>
            nz_out = Append(LettersOf(nz_text), ".")
    /\ (nz_pc \in {"once", "twice"} /\ nz_text = ExampleHyphenated) =>
            nz_out = <<"e", "x", "a", "m", "p", "l", "e", ".">>

\* words of letters, set apart by one space or one line break each
IsWrappedWords(text) ==
    /\ text # <<>>
    /\ text[1] \in Letters
    /\ text[Len(text)] \in Letters
    /\ \A i \in 1..Len(text) : text[i] \in Letters \cup {SP, NL}
    /\ \A i \in 1..(Len(text) - 1) : text[i] \in {SP, NL} => text[i + 1] \in Letters

\* C10: a single line break between two words becomes exactly one space, no
\* line break is left in the result, and a result that does not end in '.', '!'
\* or '?' gets a period: "hi my\nname\nis sam" becomes "hi my name is sam.".
C10_LineBreaksJoined ==
    nz_pc \in {"once", "twice"} =>
        /\ \A i \in 1..Len(nz_out) : nz_out[i] # NL
        /\ nz_out # <<>> => nz_out[Len(nz_out)] \in {".", "!", "?"}
        /\ IsWrappedWords(nz_text) =>
            /\ Len(nz_out) = Len(nz_text) + 1
            /\ \A i \in 1..Len(nz_text) :
                nz_out[i] = IF nz_text[i] = NL THEN SP ELSE nz_text[i]
        /\ nz_text = ExampleWrapped =>
            nz_out = <<"h", "i", SP, "m", "y", SP, "n", "a", "m", "e", SP,
                       "i", "s", SP, "s", "a", "m", ".">>

\* C10's case: the wrapped example, normalized
C10_Witness ==
    /\ nz_pc = "once"
    /\ nz_text = ExampleWrapped
    /\ Len(nz_out) = 18

====
